---- MODULE Spec2Model ----
(***************************************************************************)
(* Biot coupling terms of sfepy (sfepy/terms/termsBiot.py): dw_biot,       *)
(* dw_biot_th, dw_biot_eth, dq_biot_stress, their get_fargs strategies,    *)
(* the data caches they consult and the time-stepping driver around them.  *)
(*                                                                         *)
(* Numbers are fixed-point: a real x is held as the integer x * Unit, and  *)
(* the decay material as the fraction decay / DecayDen, so that every      *)
(* product with the decay is exact.  One element and one quadrature point  *)
(* are modelled: an "array" is its single entry.                           *)
(***************************************************************************)
EXTENDS Integers, Sequences, FiniteSets, TLC

VARIABLES
    step,          \* ts.step of the time stepper
    field,         \* value of the state argument at the quadrature point, now
    vals,          \* vals[k+1]: the state value during step k
    decay,         \* numerator of material_1 (the decay), over DecayDen
    terms,         \* term id -> the instance's attributes, or NoTerm
    BiotETHTerm_use_caches,  \* BiotETHTerm.use_caches, the dict object of the class
    cache,         \* data cache entries at history offset 0: key -> array
    prev,          \* data cache entries at history offset -1
    history,       \* accumulator of the exp_history cache, per term
    nComputed,     \* key -> number of compute calls in the current step
    resid,         \* terms whose residual was requested in the current step
    res,           \* outcome of the last operation
    binding,       \* role pattern handed to resolve_arguments
    selected,      \* what resolve_arguments made of it
    region,        \* element list of the region a term is evaluated on
    chunkSize,     \* chunk_size of the evaluation
    gen            \* the generator object returned by dq_biot_stress.__call__

vars == <<step, field, vals, decay, terms, BiotETHTerm_use_caches, cache, prev, history,
          nComputed, resid, res, binding, selected, region, chunkSize, gen>>

termVars == <<step, field, vals, decay, terms, BiotETHTerm_use_caches, cache, prev,
              history, nComputed, resid, res>>
resolveVars == <<binding, selected>>
chunkVars == <<region, chunkSize, gen>>

---------------------------------------------------------------------------
\* Bounds of the model.
MaxStep == 2
MaxVal == 2
DecayDen == 2
NMats == 2
MaxEl == 4
MaxChunk == 3
MaxArgs == 3

RECURSIVE Pow(_, _)
Pow(b, e) == IF e = 0 THEN 1 ELSE b * Pow(b, e - 1)

Unit == Pow(DecayDen, MaxStep + 1)
\* state values 2.0, 4.0, ...
Values == {2 * v * Unit : v \in 1..MaxVal}
Decays == 1..(DecayDen - 1)

\* decay * x for an array x (nm multiplication, elementwise)
Mul(d, x) == (d * x) \div DecayDen

TermIds == {"t1", "t2"}
NoTerm == [cls |-> "none"]
NoDiff == "None"
\* diff_var: None, or the name of the state variable
DiffVars == {NoDiff, "state"}
CallModes == {"weak", "eval", "qp"}
NoFmode == -1

---------------------------------------------------------------------------
\* Class attributes.

BiotTerm_arg_types ==
    << <<"material", "virtual", "state">>,
       <<"material", "state", "virtual">>,
       <<"material", "parameter_v", "parameter_s">> >>

\* BiotTerm_modes with the first two tags exchanged
BiotTerm_modes_swapped == <<"div", "grad", "eval">>

BiotTerm_modes == <<"grad", "div", "eval">>

BiotTHTerm_modes == <<"grad", "div">>

BiotETHTerm_modes == <<"grad", "div">>

BiotETHTerm_use_caches_class == {"exp_history"}

ClassNames == {"dw_biot", "dw_biot_th", "dw_biot_eth"}

ModesOf(cls) ==
    CASE cls = "dw_biot" -> BiotTerm_modes
      [] cls = "dw_biot_th" -> BiotTHTerm_modes
      [] cls = "dw_biot_eth" -> BiotETHTerm_modes

Range(s) == {s[i] : i \in DOMAIN s}

---------------------------------------------------------------------------
\* Construction: set_arg_types binds the kernel, the get_fargs strategy and
\* the cache declarations from the instance's mode.

\* BiotTerm.set_arg_types
BiotTerm_set_arg_types(mode) ==
    [function |-> CASE mode = "grad" -> "dw_biot_grad"
                    [] mode = "div" -> "dw_biot_div"
                    [] mode = "eval" -> "d_biot_div",
     get_fargs |-> "get_fargs",
     has_own |-> FALSE,
     own |-> {}]

\* BiotTHTerm.set_arg_types: self.use_caches = {...} makes an attribute of
\* the instance.
BiotTHTerm_set_arg_types(mode) ==
    IF mode = "grad"
    THEN [function |-> "dw_biot_grad", get_fargs |-> "get_fargs_grad",
          has_own |-> TRUE, own |-> {"state_in_volume_qp"}]
    ELSE [function |-> "dw_biot_div", get_fargs |-> "get_fargs_div",
          has_own |-> TRUE, own |-> {"cauchy_strain"}]

\* BiotETHTerm.set_arg_types, the local use_caches of the selected branch
BiotETHTerm_local_use_caches(mode) ==
    IF mode = "grad" THEN {"state_in_volume_qp"} ELSE {"cauchy_strain"}

\* BiotETHTerm.set_arg_types: no attribute of the instance is made;
\* self.use_caches is the dict of the class, and update() changes it in place.
BiotETHTerm_set_arg_types(mode) ==
    IF mode = "grad"
    THEN [function |-> "dw_biot_grad", get_fargs |-> "get_fargs_grad",
          has_own |-> FALSE, own |-> {}]
    ELSE [function |-> "dw_biot_div", get_fargs |-> "get_fargs_div",
          has_own |-> FALSE, own |-> {}]

set_arg_types(cls, mode) ==
    CASE cls = "dw_biot" -> BiotTerm_set_arg_types(mode)
      [] cls = "dw_biot_th" -> BiotTHTerm_set_arg_types(mode)
      [] cls = "dw_biot_eth" -> BiotETHTerm_set_arg_types(mode)

\* self.use_caches as read on instance t: the instance's attribute when it
\* has one, else the attribute of its class.
use_caches(t) ==
    IF terms[t].has_own THEN terms[t].own
    ELSE IF terms[t].cls = "dw_biot_eth" THEN BiotETHTerm_use_caches
    ELSE {}

Constructed == {t \in TermIds : terms[t] # NoTerm}

\* Terms are constructed at problem setup, before the first time step ends.
Construct(t, cls, mode) ==
    /\ terms[t] = NoTerm
    /\ step = 0
    /\ mode \in Range(ModesOf(cls))
    /\ terms' = [terms EXCEPT ![t] =
                    [cls |-> cls, mode |-> mode] @@ set_arg_types(cls, mode)]
    /\ BiotETHTerm_use_caches' = IF cls = "dw_biot_eth"
                       THEN BiotETHTerm_use_caches \cup BiotETHTerm_local_use_caches(mode)
                       ELSE BiotETHTerm_use_caches
    /\ res' = [op |-> "construct", term |-> t, call |-> "none",
               diff |-> NoDiff, hits |-> 0, outcome |-> "none",
               fmode |-> NoFmode, kvals |-> <<>>, lookups |-> <<>>]
    /\ UNCHANGED <<step, field, vals, decay, cache, prev, history,
                   nComputed, resid>>
    /\ UNCHANGED <<resolveVars, chunkVars>>

---------------------------------------------------------------------------
\* The data caches.  A key is <<cache name, quantity, consumer term, index>>;
\* the history offset is the variable the entry is held in (cache: 0,
\* prev: -1).  A cache state cs is [data |-> entries, n |-> compute counts].

CacheHit(cs, key) == key \in DOMAIN cs.data

\* get(): the state of the cache after the call
CacheGet(cs, key, computed) ==
    IF CacheHit(cs, key) THEN cs
    ELSE [data |-> cs.data @@ (key :> computed),
          n |-> IF key \in DOMAIN cs.n
                THEN [cs.n EXCEPT ![key] = @ + 1]
                ELSE cs.n @@ (key :> 1)]

\* get(): the array returned
CacheVal(cs, key, computed) ==
    IF CacheHit(cs, key) THEN cs.data[key] ELSE computed

\* the increment of the exp_history cache
Increment(d, values) == Mul(d, values)

\* The accumulator after a rotation, from the accumulator and the increment
\* of the step that ends.
NextHistory(d, hist, increment) == Mul(d, hist) + increment

\* THStateKey with the index of the material dropped from the key
THStateKeyNoIndex(t, mode, ii) ==
    IF mode = "grad" THEN <<"state_in_volume_qp", "state", t, 0>>
    ELSE <<"cauchy_strain", "strain", t, 0>>

\* get_cache(name, 0) and cache(quantity, self, ii, ...) of iter_kernel in
\* BiotGradTH and BiotDivTH
THStateKey(t, mode, ii) ==
    IF mode = "grad" THEN <<"state_in_volume_qp", "state", t, ii>>
    ELSE <<"cauchy_strain", "strain", t, ii>>

\* get_cache(name, 0) and cache(quantity, self, 0, ...) of BiotGradETH and
\* BiotDivETH
ETHStateKey(t, mode) ==
    IF mode = "grad" THEN <<"state_in_volume_qp", "state", t, 0>>
    ELSE <<"cauchy_strain", "strain", t, 0>>

\* cache('increment', self, 0, ...) on the exp_history cache
IncrementKey(t) == <<"exp_history", "increment", t, 0>>

EmptyMap == [k \in {} |-> 0]

---------------------------------------------------------------------------
\* get_fargs.  A result is [outcome, fmode, kvals, lookups]: kvals are the
\* values put in the value slot of the kernel arguments that were returned
\* (none when the call raised), lookups the quantities asked of a cache, in
\* the order of the calls.

\* get_shape_grad / get_shape_div of the coupling mixins: the mode flag
get_shape_mode(diff) == IF diff = NoDiff THEN 0 ELSE 1

Skipped(lookups) ==
    [outcome |-> "skip", fmode |-> NoFmode, kvals |-> <<>>,
     lookups |-> lookups]

Fargs(fmode, kvals, lookups) ==
    [outcome |-> "fargs", fmode |-> fmode, kvals |-> kvals,
     lookups |-> lookups]

\* the zero placeholder nm.array([0], ndmin=4)
Aux == 0

\* BiotTerm.get_fargs: self.get evaluates the variable at the quadrature
\* points; no data cache is asked.
BiotTerm_get_fargs(selfMode, callMode, diff, fld) ==
    LET qp_name == IF selfMode = "grad" THEN "val" ELSE "cauchy_strain"
    IN  IF callMode = "weak"
        THEN IF diff = NoDiff
             THEN Fargs(0, <<fld>>, <<qp_name>>)
             ELSE Fargs(1, <<Aux>>, <<>>)
        ELSE IF callMode = "eval"
        THEN Fargs(NoFmode, <<fld, fld>>, <<"cauchy_strain", "val">>)
        ELSE [outcome |-> "ValueError", fmode |-> NoFmode, kvals |-> <<>>,
              lookups |-> <<>>]

\* BiotTH_get_fargs without the test of the step
BiotTH_get_fargs_no_skip(stp, diff) ==
    LET mode == get_shape_mode(diff)
    IN  IF mode = 1
        THEN Fargs(mode, <<Aux>>, <<>>)
        ELSE [outcome |-> "iter_kernel", fmode |-> mode, kvals |-> <<>>,
              lookups |-> <<>>]

\* BiotTH_get_fargs skipping step 0 whatever the mode
BiotTH_get_fargs_skips_jacobian(stp, diff) ==
    LET mode == get_shape_mode(diff)
    IN  IF stp = 0
        THEN Skipped(<<>>)
        ELSE IF mode = 1
        THEN Fargs(mode, <<Aux>>, <<>>)
        ELSE [outcome |-> "iter_kernel", fmode |-> mode, kvals |-> <<>>,
              lookups |-> <<>>]

\* BiotGradTH.get_fargs_grad / BiotDivTH.get_fargs_div
BiotTH_get_fargs(stp, diff) ==
    LET mode == get_shape_mode(diff)
    IN  IF stp = 0 /\ mode = 0
        THEN Skipped(<<>>)
        ELSE IF mode = 1
        THEN Fargs(mode, <<Aux>>, <<>>)
        ELSE [outcome |-> "iter_kernel", fmode |-> mode, kvals |-> <<>>,
              lookups |-> <<>>]

\* iter_kernel of BiotGradTH / BiotDivTH, run to its end: the cache state
\* after the calls for ii, ii + 1, ..., len(mats) - 1
RECURSIVE iter_kernel_cache(_, _, _, _, _)
iter_kernel_cache(cs, t, mode, ii, fld) ==
    IF ii >= NMats THEN cs
    ELSE iter_kernel_cache(CacheGet(cs, THStateKey(t, mode, ii), fld),
                         t, mode, ii + 1, fld)

\* the values iter_kernel yields, in order
RECURSIVE iter_kernel_vals(_, _, _, _, _)
iter_kernel_vals(cs, t, mode, ii, fld) ==
    IF ii >= NMats THEN <<>>
    ELSE <<CacheVal(cs, THStateKey(t, mode, ii), fld)>>
         \o iter_kernel_vals(CacheGet(cs, THStateKey(t, mode, ii), fld),
                           t, mode, ii + 1, fld)

\* BiotETH_get_fargs raising at step 0 before it asks the caches
BiotETH_get_fargs_skip_first(t, mode, stp, diff, cs, hist, d, fld) ==
    IF diff = NoDiff
    THEN IF stp = 0 THEN [cs |-> cs, r |-> Skipped(<<>>)]
         ELSE LET skey == ETHStateKey(t, mode)
                  vec_qp == CacheVal(cs, skey, fld)
                  cs1 == CacheGet(cs, skey, fld)
                  ikey == IncrementKey(t)
                  increment == CacheVal(cs1, ikey, Increment(d, vec_qp))
                  cs2 == CacheGet(cs1, ikey, Increment(d, vec_qp))
                  looked == <<skey[2], "increment", "history">>
              IN  [cs |-> cs2,
                   r |-> Fargs(get_shape_mode(diff), <<hist + increment>>,
                               looked)]
    ELSE [cs |-> cs, r |-> Fargs(get_shape_mode(diff), <<Aux>>, <<>>)]

\* BiotETH_get_fargs handing material_0 (1.0) to the cache as the decay
BiotETH_get_fargs_wrong_decay(t, mode, stp, diff, cs, hist, d, fld) ==
    IF diff = NoDiff
    THEN LET skey == ETHStateKey(t, mode)
             vec_qp == CacheVal(cs, skey, fld)
             cs1 == CacheGet(cs, skey, fld)
             ikey == IncrementKey(t)
             increment == CacheVal(cs1, ikey, Increment(DecayDen, vec_qp))
             cs2 == CacheGet(cs1, ikey, Increment(DecayDen, vec_qp))
             looked == <<skey[2], "increment", "history">>
         IN  [cs |-> cs2,
              r |-> IF stp = 0 THEN Skipped(looked)
                    ELSE Fargs(get_shape_mode(diff), <<hist + increment>>,
                               looked)]
    ELSE [cs |-> cs, r |-> Fargs(get_shape_mode(diff), <<Aux>>, <<>>)]

\* BiotETH_get_fargs putting the history alone in the value slot
BiotETH_get_fargs_history_only(t, mode, stp, diff, cs, hist, d, fld) ==
    IF diff = NoDiff
    THEN LET skey == ETHStateKey(t, mode)
             vec_qp == CacheVal(cs, skey, fld)
             cs1 == CacheGet(cs, skey, fld)
             ikey == IncrementKey(t)
             cs2 == CacheGet(cs1, ikey, Increment(d, vec_qp))
             looked == <<skey[2], "increment", "history">>
         IN  [cs |-> cs2,
              r |-> IF stp = 0 THEN Skipped(looked)
                    ELSE Fargs(get_shape_mode(diff), <<hist>>, looked)]
    ELSE [cs |-> cs, r |-> Fargs(get_shape_mode(diff), <<Aux>>, <<>>)]

\* BiotGradETH.get_fargs_grad / BiotDivETH.get_fargs_div: the result and the
\* cache state after the call
BiotETH_get_fargs(t, mode, stp, diff, cs, hist, d, fld) ==
    IF diff = NoDiff
    THEN LET skey == ETHStateKey(t, mode)
             vec_qp == CacheVal(cs, skey, fld)
             cs1 == CacheGet(cs, skey, fld)
             ikey == IncrementKey(t)
             increment == CacheVal(cs1, ikey, Increment(d, vec_qp))
             cs2 == CacheGet(cs1, ikey, Increment(d, vec_qp))
             looked == <<skey[2], "increment", "history">>
         IN  [cs |-> cs2,
              r |-> IF stp = 0 THEN Skipped(looked)
                    ELSE Fargs(get_shape_mode(diff), <<hist + increment>>,
                               looked)]
    ELSE [cs |-> cs, r |-> Fargs(get_shape_mode(diff), <<Aux>>, <<>>)]

\* how many of the keys are entries of the cache already
Hits(keys) == Cardinality(keys \cap DOMAIN cache)

Result(op, t, call, diff, hits, r) ==
    [op |-> op, term |-> t, call |-> call, diff |-> diff, hits |-> hits]
        @@ r

Residual(t, diff) == IF diff = NoDiff THEN resid \cup {t} ELSE resid

GetFargsBiot(t, callMode, diff) ==
    /\ t \in Constructed
    /\ terms[t].cls = "dw_biot"
    /\ res' = Result("get_fargs", t, callMode, diff, 0,
                     BiotTerm_get_fargs(terms[t].mode, callMode, diff, field))
    /\ resid' = Residual(t, diff)
    /\ UNCHANGED <<step, field, vals, decay, terms, BiotETHTerm_use_caches, cache,
                   prev, history, nComputed>>
    /\ UNCHANGED <<resolveVars, chunkVars>>

GetFargsTH(t, diff) ==
    /\ t \in Constructed
    /\ terms[t].cls = "dw_biot_th"
    /\ res' = Result("get_fargs", t, "weak", diff, 0,
                     BiotTH_get_fargs(step, diff))
    /\ resid' = Residual(t, diff)
    /\ UNCHANGED <<step, field, vals, decay, terms, BiotETHTerm_use_caches, cache,
                   prev, history, nComputed>>
    /\ UNCHANGED <<resolveVars, chunkVars>>

\* The caller runs the iter_kernel it was handed, one kernel call per
\* entry.
iter_kernel(t) ==
    /\ res.op = "get_fargs"
    /\ res.term = t
    /\ res.outcome = "iter_kernel"
    /\ LET cs == [data |-> cache, n |-> nComputed]
           cs1 == iter_kernel_cache(cs, t, terms[t].mode, 0, field)
       IN  /\ cache' = cs1.data
           /\ nComputed' = cs1.n
           /\ res' = Result("iter_kernel", t, "weak", res.diff,
                        Hits({THStateKey(t, terms[t].mode, ii) :
                                 ii \in 0..(NMats - 1)}),
                        Fargs(res.fmode,
                              iter_kernel_vals(cs, t, terms[t].mode, 0, field),
                              [ii \in 1..NMats |->
                                  THStateKey(t, terms[t].mode, ii - 1)[2]]))
    /\ UNCHANGED <<step, field, vals, decay, terms, BiotETHTerm_use_caches, prev,
                   history, resid>>
    /\ UNCHANGED <<resolveVars, chunkVars>>

GetFargsETH(t, diff) ==
    /\ t \in Constructed
    /\ terms[t].cls = "dw_biot_eth"
    /\ LET got == BiotETH_get_fargs(t, terms[t].mode, step, diff,
                              [data |-> cache, n |-> nComputed],
                              history[t], decay, field)
       IN  /\ cache' = got.cs.data
           /\ nComputed' = got.cs.n
           /\ res' = Result("get_fargs", t, "weak", diff,
                            IF diff = NoDiff
                            THEN Hits({ETHStateKey(t, terms[t].mode),
                                       IncrementKey(t)})
                            ELSE 0,
                            got.r)
    /\ resid' = Residual(t, diff)
    /\ UNCHANGED <<step, field, vals, decay, terms, BiotETHTerm_use_caches, prev,
                   history>>
    /\ UNCHANGED <<resolveVars, chunkVars>>

---------------------------------------------------------------------------
\* The time-stepping driver.  It assembles the residual of every term in
\* each step, then rotates the caches and moves to the next step, where the
\* state has a new value.

\* advance_time_step leaving the offset-0 entries in place
advance_time_step_keeps(v) ==
    /\ step < MaxStep
    /\ Constructed # {}
    /\ Constructed \subseteq resid
    /\ res.outcome # "iter_kernel"
    /\ step' = step + 1
    /\ field' = v
    /\ vals' = Append(vals, v)
    /\ prev' = cache
    /\ history' = [t \in TermIds |->
                     IF IncrementKey(t) \in DOMAIN cache
                     THEN NextHistory(decay, history[t],
                                      cache[IncrementKey(t)])
                     ELSE history[t]]
    /\ resid' = {}
    /\ res' = Result("advance_time_step", "driver", "none", NoDiff, 0,
                     [outcome |-> "none", fmode |-> NoFmode, kvals |-> <<>>,
                      lookups |-> <<>>])
    /\ UNCHANGED <<decay, terms, BiotETHTerm_use_caches, cache, nComputed>>
    /\ UNCHANGED <<resolveVars, chunkVars>>

advance_time_step(v) ==
    /\ step < MaxStep
    /\ Constructed # {}
    /\ Constructed \subseteq resid
    /\ res.outcome # "iter_kernel"
    /\ step' = step + 1
    /\ field' = v
    /\ vals' = Append(vals, v)
    /\ prev' = cache
    /\ cache' = EmptyMap
    /\ nComputed' = EmptyMap
    /\ history' = [t \in TermIds |->
                     IF IncrementKey(t) \in DOMAIN cache
                     THEN NextHistory(decay, history[t],
                                      cache[IncrementKey(t)])
                     ELSE history[t]]
    /\ resid' = {}
    /\ res' = Result("advance_time_step", "driver", "none", NoDiff, 0,
                     [outcome |-> "none", fmode |-> NoFmode, kvals |-> <<>>,
                      lookups |-> <<>>])
    /\ UNCHANGED <<decay, terms, BiotETHTerm_use_caches>>
    /\ UNCHANGED <<resolveVars, chunkVars>>

---------------------------------------------------------------------------
\* Argument resolution of dw_biot.

Roles == {"material", "virtual", "state", "parameter_v", "parameter_s"}

Bindings == UNION {[1..n -> Roles] : n \in 1..MaxArgs}

NoIndex == -1

\* resolve_arguments: the alternatives of arg_types whose role pattern is
\* the binding's; exactly one must match.  Indices count from 0.
resolve_arguments(argTypes, modes, b) ==
    LET matching == {i \in DOMAIN argTypes : argTypes[i] = b}
    IN  IF Cardinality(matching) = 1
        THEN LET i == CHOOSE j \in matching : TRUE
             IN  [status |-> "resolved", index |-> i - 1, mode |-> modes[i]]
        ELSE [status |-> "ArgumentMismatch", index |-> NoIndex,
              mode |-> "none"]

Unresolved == [status |-> "pending", index |-> NoIndex, mode |-> "none"]

Bind(b) ==
    /\ binding' = b
    /\ selected' = Unresolved
    /\ UNCHANGED <<termVars, chunkVars>>

Resolve ==
    /\ selected = Unresolved
    /\ binding # <<>>
    /\ selected' = resolve_arguments(BiotTerm_arg_types, BiotTerm_modes, binding)
    /\ UNCHANGED <<binding, termVars, chunkVars>>

---------------------------------------------------------------------------
\* Chunked evaluation of dq_biot_stress.  The region is its element list;
\* the arrays mat and state_qp hold one entry per element.

Regions ==
    {r \in UNION {[1..n -> 1..MaxEl] : n \in 0..MaxEl} :
        \A i, j \in DOMAIN r : i # j => r[i] # r[j]}

Min(a, b) == IF a < b THEN a ELSE b

\* char_fun(chunk_size, shape): the chunk that follows the pos elements
\* already handed out
char_fun(rgn, c, pos) == SubSeq(rgn, pos + 1, Min(pos + c, Len(rgn)))

\* StressQYield handing out positions within the chunk for the elements
StressQYieldLocal(mat, state_qp, chunk) ==
    [stress |-> [i \in DOMAIN chunk |-> mat[chunk[i]] * state_qp[chunk[i]]],
     chunk |-> [i \in DOMAIN chunk |-> i],
     status |-> 0]

\* the entry BiotStressQTerm.__call__ yields for a chunk
StressQYield(mat, state_qp, chunk) ==
    [stress |-> [i \in DOMAIN chunk |-> mat[chunk[i]] * state_qp[chunk[i]]],
     chunk |-> chunk,
     status |-> 0]

\* BiotStressQTerm.__call__ refuses a differentiation target
StressQRefuses(diff) == diff # NoDiff

NoGen == [state |-> "none", pos |-> 0, out |-> <<>>, diff |-> NoDiff,
          stopped |-> FALSE]

\* Calling the generator function makes the generator; no line of the body
\* has run.
StressQCall(rgn, c, diff) ==
    /\ gen = NoGen
    /\ region' = rgn
    /\ chunkSize' = c
    /\ gen' = [state |-> "created", pos |-> 0, out |-> <<>>, diff |-> diff,
               stopped |-> FALSE]
    /\ UNCHANGED <<termVars, resolveVars>>

\* cache('state', self, 0, ...) of the two stress terms
StressStateKey(term) == <<"state_in_volume_qp", "state", term, 0>>

\* next() on the generator: the body runs to its next yield, or to its end.
\* The first next() runs the body from its top: the test of diff_var, then
\* the cache lookup.
StressQNext ==
    /\ gen.state \in {"created", "suspended"}
    /\ LET key == StressStateKey("dq_biot_stress")
           cs == [data |-> cache, n |-> nComputed]
           refused == gen.state = "created" /\ StressQRefuses(gen.diff)
           cs1 == IF refused THEN cs ELSE CacheGet(cs, key, field)
           mat == [e \in 1..MaxEl |-> e]
           state_qp == [e \in 1..MaxEl |-> cs1.data[key]]
           chunk == char_fun(region, chunkSize, gen.pos)
       IN  /\ cache' = cs1.data
           /\ nComputed' = cs1.n
           /\ IF refused \/ gen.pos >= Len(region)
              THEN gen' = [gen EXCEPT !.state = "exhausted"]
              ELSE gen' = [gen EXCEPT
                             !.state = "suspended",
                             !.pos = @ + Len(chunk),
                             !.out = Append(@, StressQYield(mat, state_qp,
                                                            chunk))]
    /\ UNCHANGED <<region, chunkSize, resolveVars>>
    /\ UNCHANGED <<step, field, vals, decay, terms, BiotETHTerm_use_caches, prev,
                   history, resid, res>>

\* BiotStressTerm.build_c_fun_args of de_biot_stress, on the same cache
build_c_fun_args ==
    /\ LET key == StressStateKey("de_biot_stress")
           cs == [data |-> cache, n |-> nComputed]
           cs1 == CacheGet(cs, key, field)
       IN  /\ cache' = cs1.data
           /\ nComputed' = cs1.n
           /\ res' = Result("build_c_fun_args", "de_biot_stress", "none",
                            NoDiff, Hits({key}),
                            Fargs(NoFmode, <<CacheVal(cs, key, field)>>,
                                  <<"state">>))
    /\ UNCHANGED <<step, field, vals, decay, terms, BiotETHTerm_use_caches, prev,
                   history, resid>>
    /\ UNCHANGED <<resolveVars, chunkVars>>

\* next() on the finished generator raises StopIteration again.
StressQNextExhausted ==
    /\ gen.state = "exhausted"
    /\ gen' = [gen EXCEPT !.stopped = TRUE]
    /\ UNCHANGED <<region, chunkSize, termVars, resolveVars>>

---------------------------------------------------------------------------
\* Specifications.

NoResult ==
    [op |-> "none", term |-> "none", call |-> "none", diff |-> NoDiff,
     hits |-> 0, outcome |-> "none", fmode |-> NoFmode, kvals |-> <<>>,
     lookups |-> <<>>]

TermInit(fields, decays) ==
    /\ step = 0
    /\ field \in fields
    /\ vals = <<field>>
    /\ decay \in decays
    /\ terms = [t \in TermIds |-> NoTerm]
    /\ BiotETHTerm_use_caches = BiotETHTerm_use_caches_class
    /\ cache = EmptyMap
    /\ prev = EmptyMap
    /\ history = [t \in TermIds |-> 0]
    /\ nComputed = EmptyMap
    /\ resid = {}
    /\ res = NoResult

ResolveIdle == binding = <<>> /\ selected = Unresolved

ChunkIdle == region = <<>> /\ chunkSize = 1 /\ gen = NoGen

\* Terms, caches and the time-stepping driver
Init == TermInit(Values, Decays) /\ ResolveIdle /\ ChunkIdle

Next ==
    \/ \E t \in TermIds, cls \in ClassNames, mode \in Range(BiotTerm_modes) :
          Construct(t, cls, mode)
    \/ \E t \in TermIds, callMode \in CallModes, diff \in DiffVars :
          GetFargsBiot(t, callMode, diff)
    \/ \E t \in TermIds, diff \in DiffVars : GetFargsTH(t, diff)
    \/ \E t \in TermIds : iter_kernel(t)
    \/ \E t \in TermIds, diff \in DiffVars : GetFargsETH(t, diff)
    \/ \E v \in Values : advance_time_step(v)

Spec == Init /\ [][Next]_vars

\* Argument resolution
InitResolve ==
    /\ TermInit({Unit}, {1})
    /\ binding \in Bindings
    /\ selected = Unresolved
    /\ ChunkIdle

NextResolve ==
    \/ \E b \in Bindings : Bind(b)
    \/ Resolve

SpecResolve == InitResolve /\ [][NextResolve]_vars

\* Chunked evaluation
InitChunk == TermInit(Values, {1}) /\ ResolveIdle /\ ChunkIdle

NextChunk ==
    \/ \E rgn \in Regions, c \in 1..MaxChunk, diff \in DiffVars :
          StressQCall(rgn, c, diff)
    \/ StressQNext
    \/ StressQNextExhausted
    \/ build_c_fun_args

SpecChunk == InitChunk /\ [][NextChunk]_vars

---------------------------------------------------------------------------
\* Properties.

Cls(t) == terms[t].cls

\* the last operation was get_fargs on a term of one of the classes
GotFargs(classes) ==
    /\ res.op = "get_fargs"
    /\ Cls(res.term) \in classes

HistoryTerms == {"dw_biot_th", "dw_biot_eth"}

\* C1: a residual request to get_fargs of dw_biot_th or dw_biot_eth is
\* skipped at step 0 (nothing returned, no kernel call, not an error) and
\* at every later step returns kernel arguments with fmode = 0.
C1_SkipAtStepZero ==
    /\ (GotFargs(HistoryTerms) /\ res.diff = NoDiff /\ step = 0)
          => /\ res.outcome = "skip"
             /\ res.kvals = <<>>
             /\ res.fmode = NoFmode
    /\ (GotFargs(HistoryTerms) /\ res.diff = NoDiff /\ step >= 1)
          => /\ res.outcome \in {"fargs", "iter_kernel"}
             /\ res.fmode = 0
             /\ Cls(res.term) = "dw_biot_eth" => Len(res.kvals) = 1
    /\ res.op = "iter_kernel"
          => /\ step >= 1
             /\ res.fmode = 0
             /\ Len(res.kvals) = NMats

C1_Witness ==
    /\ Constructed = TermIds
    /\ Cls("t1") = "dw_biot_th"
    /\ Cls("t2") = "dw_biot_eth"
    /\ GotFargs({"dw_biot_eth"})
    /\ res.diff = NoDiff
    /\ step = 0
    /\ res.outcome = "skip"
    /\ "t1" \in resid

\* the keys of the entries a term asks for, written out
StateKeyOf(t, ii) ==
    IF terms[t].mode = "grad" THEN <<"state_in_volume_qp", "state", t, ii>>
    ELSE <<"cauchy_strain", "strain", t, ii>>

IncrementKeyOf(t) == <<"exp_history", "increment", t, 0>>

C2_Entries ==
    /\ DOMAIN nComputed = DOMAIN cache
    /\ \A key \in DOMAIN cache : nComputed[key] = 1
    /\ res.op = "iter_kernel"
          => \A ii \in 0..(NMats - 1) :
                /\ StateKeyOf(res.term, ii) \in DOMAIN cache
                /\ res.kvals[ii + 1] = cache[StateKeyOf(res.term, ii)]
    /\ (GotFargs({"dw_biot_eth"}) /\ res.diff = NoDiff)
          => /\ StateKeyOf(res.term, 0) \in DOMAIN cache
             /\ IncrementKeyOf(res.term) \in DOMAIN cache
             /\ res.outcome = "fargs"
                   => res.kvals = <<history[res.term]
                                     + cache[IncrementKeyOf(res.term)]>>

C2_Step ==
    step' = step
       => /\ \A key \in DOMAIN cache :
                /\ key \in DOMAIN cache'
                /\ cache'[key] = cache[key]
                /\ nComputed'[key] = nComputed[key]
          /\ \A key \in DOMAIN cache' \ DOMAIN cache :
                /\ res'.op \in {"get_fargs", "iter_kernel"}
                /\ key[3] = res'.term

\* C2: within one time step every key of a data cache is computed exactly
\* once, on the first get; later gets with that key return the stored array,
\* and a get with another term or another index neither returns nor
\* overwrites the entry.
C2_AtMostOnce == []C2_Entries /\ [][C2_Step]_vars

C2_Witness ==
    /\ Constructed = TermIds
    /\ Cls("t1") = "dw_biot_th"
    /\ Cls("t2") = "dw_biot_th"
    /\ terms["t1"].mode = terms["t2"].mode
    /\ res.op = "iter_kernel"
    /\ res.term = "t1"
    /\ res.hits = NMats
    /\ \A ii \in 0..(NMats - 1) : StateKeyOf("t2", ii) \in DOMAIN cache

C3_Rotate ==
    step' # step
       => /\ res'.op = "advance_time_step"
          /\ step' = step + 1
          /\ prev' = cache
          /\ cache' = EmptyMap
          /\ nComputed' = EmptyMap

C3_TermsDoNotRotate ==
    res'.op \in {"get_fargs", "iter_kernel", "construct"}
       => /\ step' = step
          /\ prev' = prev
          /\ history' = history

C3_Fresh ==
    \A key \in DOMAIN cache :
        key[2] \in {"state", "strain"}
           => cache[key] = field /\ nComputed[key] = 1

\* C3: advance_time_step moves every offset-0 entry to offset -1 unchanged
\* and leaves no entry at offset 0, so the next get computes from the new
\* state; only the driver advances the step, never get_fargs or the kernel
\* iteration of a term, and every entry at offset 0 was computed in the
\* current step.
C3_Rotation == []C3_Fresh /\ [][C3_Rotate /\ C3_TermsDoNotRotate]_vars

C3_Witness ==
    /\ step >= 1
    /\ \E key \in DOMAIN cache \cap DOMAIN prev :
          /\ cache[key] # prev[key]
          /\ prev[key] = vals[step]
          /\ cache[key] = vals[step + 1]

EthResidual ==
    /\ GotFargs({"dw_biot_eth"})
    /\ res.diff = NoDiff

C4_TwoStep ==
    /\ (EthResidual /\ step = 0)
          => /\ res.outcome = "skip"
             /\ history[res.term] = 0
    /\ (EthResidual /\ step = 1)
          => LET t == res.term
                 increment == cache[IncrementKeyOf(t)]
             IN  /\ DecayDen * history[t] = decay * vals[1]
                 /\ DecayDen * increment = decay * vals[2]
                 /\ res.outcome = "fargs"
                 /\ res.kvals = <<history[t] + increment>>
                 /\ DecayDen * res.kvals[1] = decay * (vals[1] + vals[2])

C4_HistoryKept == res'.op = "get_fargs" => history' = history

\* C4: in a two-step run of dw_biot_eth with decay d and state values v0,
\* v1, step 0 is skipped, at step 1 the history is d*v0, the increment is
\* d*v1 and the value in the kernel arguments is their sum; get_fargs (and so
\* get('increment')) leaves the stored history alone.
C4_TwoStepRun == []C4_TwoStep /\ [][C4_HistoryKept]_vars

\* decay 0.5, state values 2.0 and 4.0: history 1.0, value 3.0
C4_Witness ==
    /\ EthResidual
    /\ step = 1
    /\ decay * 2 = DecayDen
    /\ vals = <<2 * Unit, 4 * Unit>>
    /\ history[res.term] = Unit
    /\ res.kvals = <<3 * Unit>>

\* DecayDen^k times the sum over i = 0..k-1 of d^(k-i+shift) * v_i
RECURSIVE Convolution(_, _, _)
Convolution(k, i, shift) ==
    IF i >= k THEN 0
    ELSE Pow(decay, k - i + shift) * Pow(DecayDen, i - shift) * vals[i + 1]
         + Convolution(k, i + 1, shift)

EthTerms == {t \in Constructed : Cls(t) = "dw_biot_eth"}

\* C5 as claimed: after k steps the accumulator is the sum over
\* i = 0..k-1 of d^(k-1-i) * v_i.
C5_Original ==
    \A t \in EthTerms :
        Pow(DecayDen, step) * history[t] = Convolution(step, 0, -1)

\* C5: after k steps, with a rotation after each, the accumulator is the
\* sum over i = 0..k-1 of d^(k-i) * v_i; at step 0 it is zero.
C5_Accumulator ==
    \A t \in EthTerms :
        /\ Pow(DecayDen, step) * history[t] = Convolution(step, 0, 0)
        /\ step = 0 => history[t] = 0

C5_Witness ==
    /\ step = 2
    /\ EthTerms # {}
    /\ vals[1] # vals[2]
    /\ \A t \in EthTerms : history[t] > Mul(decay, vals[2])

ModeCaches(mode) ==
    IF mode = "grad" THEN {"exp_history", "state_in_volume_qp"}
    ELSE {"exp_history", "cauchy_strain"}

\* C6: the kernel and the cache declarations of every instance are those of
\* its own mode, whatever other instances exist: grad binds dw_biot_grad,
\* div binds dw_biot_div, and a dw_biot_eth instance declares exactly the
\* caches of its mode.
C6_ModeAlone ==
    \A t \in Constructed :
        /\ terms[t].mode = "grad" => terms[t].function = "dw_biot_grad"
        /\ terms[t].mode = "div" => terms[t].function = "dw_biot_div"
        /\ Cls(t) = "dw_biot_eth" => use_caches(t) = ModeCaches(terms[t].mode)

Alternative(i) ==
    CASE i = 0 -> <<"material", "virtual", "state">>
      [] i = 1 -> <<"material", "state", "virtual">>
      [] i = 2 -> <<"material", "parameter_v", "parameter_s">>

ModeTag(i) ==
    CASE i = 0 -> "grad"
      [] i = 1 -> "div"
      [] i = 2 -> "eval"

\* C7: resolving a binding against the alternatives of dw_biot selects
\* index i and the i-th mode when the role pattern is alternative i, and
\* fails with ArgumentMismatch, selecting no mode, when it is none of them.
C7_Resolution ==
    selected.status # "pending"
       => /\ \A i \in 0..2 :
                binding = Alternative(i)
                   => selected = [status |-> "resolved", index |-> i,
                                  mode |-> ModeTag(i)]
          /\ (\A i \in 0..2 : binding # Alternative(i))
                => /\ selected.status = "ArgumentMismatch"
                   /\ selected.mode = "none"
                   /\ selected.index = NoIndex

C7_Witness ==
    /\ binding = <<"material", "virtual", "state">>
    /\ selected.status = "resolved"
    /\ selected.index = 0
    /\ selected.mode = "grad"

RECURSIVE Chunks(_)
Chunks(out) ==
    IF out = <<>> THEN <<>> ELSE Head(out).chunk \o Chunks(Tail(out))

Ceil(n, c) == (n + c - 1) \div c

C8_Partition ==
    /\ Len(gen.out) <= Ceil(Len(region), chunkSize)
    /\ Chunks(gen.out) = SubSeq(region, 1, gen.pos)
    /\ \A i \in DOMAIN gen.out :
          /\ i < Len(gen.out) => Len(gen.out[i].chunk) = chunkSize
          /\ Len(gen.out[i].chunk) \in 1..chunkSize
    /\ (gen.state = "exhausted" /\ gen.diff = NoDiff)
          => /\ Len(gen.out) = Ceil(Len(region), chunkSize)
             /\ Chunks(gen.out) = region

C8_NoRestart ==
    gen.state = "exhausted"
       => /\ gen'.state = "exhausted"
          /\ gen'.out = gen.out

\* C8: evaluating over a region of n elements with chunk size c yields
\* ceil(n/c) entries whose chunks, concatenated, are the element list of
\* the region in its order; every chunk but the last has c elements; once
\* the sequence has ended it yields nothing more.
C8_Chunking == []C8_Partition /\ [][C8_NoRestart]_vars

C8_Witness ==
    /\ gen.state = "exhausted"
    /\ gen.stopped
    /\ gen.diff = NoDiff
    /\ Len(region) = MaxEl
    /\ region[1] > region[2]
    /\ chunkSize = MaxChunk
    /\ Len(gen.out) = 2
    /\ Len(gen.out[2].chunk) = 1

WeakFargs ==
    /\ GotFargs(ClassNames)
    /\ res.call = "weak"

C9_Fmode ==
    WeakFargs
       => /\ res.diff # NoDiff
                => /\ res.outcome = "fargs"
                   /\ res.fmode = 1
                   /\ res.kvals = <<0>>
                   /\ res.lookups = <<>>
          /\ res.diff = NoDiff
                => /\ res.outcome \in {"fargs", "iter_kernel", "skip"}
                   /\ res.outcome # "skip" => res.fmode = 0

C9_Frame ==
    (res'.op = "get_fargs" /\ res'.call = "weak" /\ res'.diff # NoDiff)
       => /\ cache' = cache
          /\ prev' = prev
          /\ history' = history
          /\ nComputed' = nComputed

\* C9: get_fargs of dw_biot (weak), dw_biot_th and dw_biot_eth gives
\* fmode = 1 when a differentiation target is given and fmode = 0 when not;
\* a Jacobian request is never skipped, carries a zero placeholder as its
\* value, asks no cache and leaves every cache entry as it was.
C9_JacobianRequest == []C9_Fmode /\ [][C9_Frame]_vars

C9_Witness ==
    /\ GotFargs({"dw_biot_th"})
    /\ step = 0
    /\ res.diff # NoDiff
    /\ res.fmode = 1
    /\ cache # EmptyMap

C10_Order ==
    (GotFargs(HistoryTerms) /\ res.diff = NoDiff /\ step = 0)
       => /\ res.outcome = "skip"
          /\ Cls(res.term) = "dw_biot_eth"
                => /\ res.lookups =
                         <<IF terms[res.term].mode = "grad" THEN "state"
                           ELSE "strain",
                           "increment", "history">>
                   /\ IncrementKeyOf(res.term) \in DOMAIN cache
                   /\ DecayDen * cache[IncrementKeyOf(res.term)]
                         = decay * field
          /\ Cls(res.term) = "dw_biot_th" => res.lookups = <<>>

C10_THFrame ==
    (res'.op = "get_fargs" /\ res'.outcome = "skip"
        /\ Cls(res'.term) = "dw_biot_th")
       => /\ cache' = cache
          /\ nComputed' = nComputed

\* C10: on a residual request at step 0, dw_biot_eth asks its caches for
\* the state (or strain), the increment and the history, in that order, and
\* only then signals the skip, so the exp_history cache holds the increment
\* of step 0; dw_biot_th signals the skip before any lookup and leaves the
\* caches unchanged.
C10_SkipOrder == []C10_Order /\ [][C10_THFrame]_vars

C10_Witness ==
    /\ GotFargs({"dw_biot_eth"})
    /\ res.diff = NoDiff
    /\ step = 0
    /\ res.outcome = "skip"
    /\ res.hits = 0
    /\ terms[res.term].mode = "div"
    /\ DOMAIN cache = {StateKeyOf(res.term, 0), IncrementKeyOf(res.term)}

====
